---- MODULE Spec2Model ----
(***************************************************************************)
(* Personal Finance Tracker (src/main.py): the Transaction record, the     *)
(* FinanceTracker ledger with its whole-file JSON persistence, and the     *)
(* menu handlers that drive it.                                            *)
(*                                                                         *)
(* Python lists are 0-based; the sequences here are 1-based, so Python     *)
(* index i is position i + 1.  Amounts are integers (whole roubles).       *)
(* Dates are day numbers: the order of day numbers is the lexicographic    *)
(* order of the YYYY-MM-DD strings the program stores.                     *)
(***************************************************************************)
EXTENDS Integers, Sequences, FiniteSets, TLC

\* ---------------------------------------------------------------- bounds
\* Longest ledger the handlers are allowed to build.
MaxLen == 2
\* Last calendar day the clock reaches.
MaxDay == 2
\* How many storage writes may fail in one run.
MaxFailures == 1

\* Python's None for the date parameter (and JSON null in a stored record).
NoDate == 0

VARIABLES
    transactions,   \* FinanceTracker.transactions
    file,           \* the data file: [exists, closed, recs]
    today,          \* datetime.now(), as a day number
    failures,       \* storage writes that have failed so far
    last            \* the operation that ran last, its arguments and its result

vars == <<transactions, file, today, failures, last>>

\* ------------------------------------------------------------ Transaction
Keys == {"amount", "category", "description", "date"}

\* Transaction.__init__
Transaction(amount, category, description, date, now) ==
    [amount |-> amount,
     category |-> category,
     description |-> description,
     date |-> IF date = NoDate THEN now ELSE date]

\* Transaction.to_dict
to_dict(t) ==
    [amount |-> t.amount,
     category |-> t.category,
     description |-> t.description,
     date |-> t.date]

\* data[key] raises KeyError when the key is missing
from_dict_raises(data) == ~(Keys \subseteq DOMAIN data)

\* from_dict that forgets to pass the stored date on
from_dict_nodate(data, now) ==
    Transaction(data["amount"], data["category"], data["description"], NoDate, now)

\* Transaction.from_dict
from_dict(data, now) ==
    Transaction(data["amount"], data["category"], data["description"],
                data["date"], now)

\* ------------------------------------------------------------------ JSON
\* The text of the data file is a JSON array: the records written so far and
\* whether the closing bracket was reached.
NoFile == [exists |-> FALSE, closed |-> FALSE, recs |-> <<>>]
FileOf(closed, recs) == [exists |-> TRUE, closed |-> closed, recs |-> recs]

\* json.dump(data, f): the complete text
json_dump(data) == FileOf(TRUE, data)

\* what is on disk when the write stops after k records
json_dump_partial(data, k) == FileOf(FALSE, SubSeq(data, 1, k))

\* json.load(f) raises JSONDecodeError on a text that is no complete array
json_load_raises(f) == ~f.closed
json_load(f) == f.recs

\* ------------------------------------------------------- FinanceTracker
\* FinanceTracker.load_data: the value of self.transactions afterwards
load_data(f, now) ==
    IF ~f.exists THEN <<>>
    ELSE IF json_load_raises(f) THEN <<>>
    ELSE LET data == json_load(f) IN
         IF \E i \in 1..Len(data) : from_dict_raises(data[i]) THEN <<>>
         ELSE [i \in 1..Len(data) |-> from_dict(data[i], now)]

\* The ways a storage write of n records can end: all written; the file could
\* not be opened for writing; the file was opened (and so emptied) and the
\* write stopped after k records.
Outcomes(n) ==
    {[kind |-> "ok", written |-> 0], [kind |-> "open_failed", written |-> 0]}
    \cup {[kind |-> "write_failed", written |-> k] : k \in 0..n}

\* FinanceTracker.save_data: the file afterwards, whether an exception leaves
\* the method (never: it catches Exception), and how the write ended
save_data(txs, f, outcome) ==
    LET data == [i \in 1..Len(txs) |-> to_dict(txs[i])] IN
    [file |-> CASE outcome.kind = "ok" -> json_dump(data)
                [] outcome.kind = "open_failed" -> f
                [] OTHER -> json_dump_partial(data, outcome.written),
     raised |-> FALSE,
     save |-> outcome.kind]

\* What a handler leaves behind: the tracker method it called (with the
\* arguments and the value returned), the ledger and the file afterwards.
Called(call, amount, category, index, txs, f, ret, save) ==
    [call |-> call, amount |-> amount, category |-> category, index |-> index,
     transactions |-> txs, file |-> f, ret |-> ret, save |-> save]

\* a handler that returns without calling the tracker
NotCalled(txs, f) == Called("none", 0, "", 0, txs, f, FALSE, "none")

\* add_transaction that inserts at the head of the list
add_transaction_front(txs, f, amount, category, description, now, outcome) ==
    LET transaction == Transaction(amount, category, description, NoDate, now)
        appended == <<transaction>> \o txs
        s == save_data(appended, f, outcome)
    IN  Called("add_transaction", amount, category, 0, appended, s.file,
               ~s.raised, s.save)

\* FinanceTracker.add_transaction
add_transaction(txs, f, amount, category, description, now, outcome) ==
    LET transaction == Transaction(amount, category, description, NoDate, now)
        appended == Append(txs, transaction)
        s == save_data(appended, f, outcome)
    IN  Called("add_transaction", amount, category, 0, appended, s.file,
               ~s.raised, s.save)

RECURSIVE sum(_)
\* sum(t.amount for t in txs)
sum(txs) == IF txs = <<>> THEN 0 ELSE txs[1].amount + sum(Tail(txs))

\* get_balance that starts summing at the second transaction
get_balance_skip_first(txs) == IF txs = <<>> THEN 0 ELSE sum(Tail(txs))

\* FinanceTracker.get_balance
get_balance(txs) == sum(txs)

RECURSIVE totals_loop(_, _)
\* the for loop of get_category_totals, run over txs from the dict totals
totals_loop(txs, totals) ==
    IF txs = <<>> THEN totals
    ELSE LET category == txs[1].category
             t0 == IF category \notin DOMAIN totals
                   THEN totals @@ (category :> 0) ELSE totals
         IN  totals_loop(Tail(txs),
                         [t0 EXCEPT ![category] = @ + txs[1].amount])

RECURSIVE totals_loop_overwrite(_, _)
\* the loop with totals[category] = amount in place of +=
totals_loop_overwrite(txs, totals) ==
    IF txs = <<>> THEN totals
    ELSE LET category == txs[1].category
             t0 == totals @@ (category :> 0)
         IN  totals_loop_overwrite(Tail(txs),
                         [t0 EXCEPT ![category] = txs[1].amount])

\* get_category_totals over that loop
get_category_totals_overwrite(txs) == totals_loop_overwrite(txs, <<>>)

\* FinanceTracker.get_category_totals
get_category_totals(txs) == totals_loop(txs, <<>>)

\* list.pop(index) for 0 <= index < len: the list afterwards
pop(txs, index) ==
    [k \in 1..(Len(txs) - 1) |-> IF k <= index THEN txs[k] ELSE txs[k + 1]]

\* delete_transaction that tests only index < len: list.pop takes -len..-1
\* as positions counted from the end
delete_transaction_no_lower(txs, f, index, outcome) ==
    IF -Len(txs) <= index /\ index < Len(txs)
    THEN LET popped == pop(txs, IF index >= 0 THEN index ELSE index + Len(txs))
             s == save_data(popped, f, outcome)
         IN  Called("delete_transaction", 0, "", index, popped, s.file,
                    ~s.raised, s.save)
    ELSE Called("delete_transaction", 0, "", index, txs, f, FALSE, "none")

\* FinanceTracker.delete_transaction
delete_transaction(txs, f, index, outcome) ==
    IF 0 <= index /\ index < Len(txs)
    THEN LET popped == pop(txs, index)
             s == save_data(popped, f, outcome)
         IN  Called("delete_transaction", 0, "", index, popped, s.file,
                    ~s.raised, s.save)
    ELSE Called("delete_transaction", 0, "", index, txs, f, FALSE, "none")

\* ------------------------------------------------------------ user input
\* A line typed by the user is a sequence of characters.
Digits == <<"0", "1", "2", "3", "4", "5", "6", "7", "8", "9">>
IsDigit(c) == \E d \in 1..10 : Digits[d] = c
DigitVal(c) == (CHOOSE d \in 1..10 : Digits[d] = c) - 1

RECURSIVE digits_value(_)
digits_value(s) ==
    IF s = <<>> THEN 0
    ELSE 10 * digits_value(SubSeq(s, 1, Len(s) - 1)) + DigitVal(s[Len(s)])

\* int(text): an optional sign and decimal digits; anything else raises
\* ValueError (ok = FALSE)
int(s) ==
    LET neg == s # <<>> /\ s[1] = "-"
        body == IF neg THEN Tail(s) ELSE s
        ok == body # <<>> /\ \A i \in 1..Len(body) : IsDigit(body[i])
    IN  [ok |-> ok,
         val |-> IF ~ok THEN 0
                 ELSE IF neg THEN -digits_value(body) ELSE digits_value(body)]

\* float(text), for the whole amounts typed here
float(s) == int(s)

\* categories.get(choice, 'Другое') of add_income
income_category(choice) ==
    CASE choice = "1" -> "Salary"
      [] choice = "2" -> "Freelance"
      [] choice = "3" -> "Investment"
      [] OTHER -> "Other"

\* categories.get(choice, 'Другое') of add_expense
expense_category(choice) ==
    CASE choice = "1" -> "Food"
      [] choice = "2" -> "Transport"
      [] choice = "3" -> "Entertainment"
      [] choice = "4" -> "Health"
      [] choice = "5" -> "Education"
      [] OTHER -> "Other"

\* ------------------------------------------------------------- handlers
\* add_income
add_income(txs, f, inp, now, outcome) ==
    LET amount == float(inp.amount) IN
    IF ~amount.ok THEN NotCalled(txs, f)
    ELSE IF amount.val <= 0 THEN NotCalled(txs, f)
    ELSE add_transaction(txs, f, amount.val, income_category(inp.choice),
                         inp.description, now, outcome)

\* add_expense
add_expense(txs, f, inp, now, outcome) ==
    LET amount == float(inp.amount) IN
    IF ~amount.ok THEN NotCalled(txs, f)
    ELSE IF amount.val <= 0 THEN NotCalled(txs, f)
    ELSE add_transaction(txs, f, -amount.val, expense_category(inp.choice),
                         inp.description, now, outcome)

RECURSIVE sorted(_)
\* sorted(txs, key=lambda x: x.date, reverse=True): stable, newest first
sorted(txs) ==
    IF txs = <<>> THEN <<>>
    ELSE LET x == txs[1]
             rest == sorted(Tail(txs))
         IN  SelectSeq(rest, LAMBDA t : t.date > x.date) \o <<x>>
             \o SelectSeq(rest, LAMBDA t : t.date <= x.date)

\* enumerate(txs), printed as i+1: the numbered lines of a listing
enumerate(txs) == [k \in 1..Len(txs) |-> [n |-> k, transaction |-> txs[k]]]

\* show_all_transactions: the lines printed
show_all_transactions(txs) == enumerate(sorted(txs))

\* a delete menu that numbers the newest-first listing of show_all_transactions
delete_menu_lines_sorted(txs) == show_all_transactions(txs)

\* delete_transaction_menu: the lines printed before the prompt
delete_menu_lines(txs) == enumerate(txs)

\* delete_transaction_menu: what follows the prompt
delete_transaction_menu(txs, f, inp, outcome) ==
    IF txs = <<>> THEN NotCalled(txs, f)
    ELSE LET choice == int(inp) IN
         IF ~choice.ok THEN NotCalled(txs, f)
         ELSE IF choice.val = 0 THEN NotCalled(txs, f)
         ELSE delete_transaction(txs, f, choice.val - 1, outcome)

\* --------------------------------------------------------------- inputs
Text(n) == IF n < 0 THEN <<"-", Digits[1 - n]>> ELSE <<Digits[n + 1]>>

\* what is typed at the delete prompt of a ledger of n transactions
MenuInputs(n) == {Text(k) : k \in -1..(n + 1)} \cup {<<"a">>}

IncomeInputs ==
    {[amount |-> <<"5", "0", "0", "0">>, choice |-> "1", description |-> "note"],
     [amount |-> <<"1", "2", "0", "0">>, choice |-> "4", description |-> "note"],
     [amount |-> <<"0">>, choice |-> "1", description |-> "note"],
     [amount |-> <<"a">>, choice |-> "1", description |-> "note"]}

ExpenseInputs ==
    {[amount |-> <<"1", "2", "0", "0">>, choice |-> "1", description |-> "note"],
     [amount |-> <<"1", "2", "0", "0">>, choice |-> "x", description |-> "note"],
     [amount |-> <<"-", "5">>, choice |-> "1", description |-> "note"]}

\* indexes delete_transaction is tried on, for a ledger of n transactions
Indexes(n) == -2..(n + 1)

\* data files found at the first start
InitialFiles ==
    {NoFile,
     FileOf(TRUE, <<[amount |-> 5000, category |-> "Salary",
                     description |-> "note", date |-> 1],
                    [category |-> "Food", description |-> "note", date |-> 1]>>),
     FileOf(FALSE, <<[amount |-> 5000, category |-> "Salary",
                      description |-> "note", date |-> 1]>>),
     FileOf(TRUE, <<[amount |-> -1200, category |-> "Food",
                     description |-> "note", date |-> NoDate]>>)}

\* -------------------------------------------------------------- actions
\* The record of the handler that ran last: the handler, the line typed at the
\* delete prompt, the listing show_all_transactions printed, and the tracker
\* method called with its arguments, its return value and the end of its write.
Done(op, r, inp, listing) ==
    [op |-> op, call |-> r.call, amount |-> r.amount, category |-> r.category,
     index |-> r.index, ret |-> r.ret, save |-> r.save,
     input |-> inp, listing |-> listing]

Failed(r) == r.save \in {"open_failed", "write_failed"}

\* the handler op ran on the input inp and left r
Apply(op, r, inp, listing) ==
    /\ transactions' = r.transactions
    /\ file' = r.file
    /\ failures' = IF Failed(r) THEN failures + 1 ELSE failures
    /\ last' = Done(op, r, inp, listing)
    /\ UNCHANGED today

\* The write of a handler ends as outcome says: a handler that writes nothing
\* has one outcome, and the failures of a run are bounded.
Ends(r, outcome) ==
    /\ outcome.kind = "ok" \/ failures < MaxFailures
    /\ IF r.save = "none" THEN outcome.kind = "ok" ELSE r.save = outcome.kind

Init ==
    /\ file \in InitialFiles
    /\ today = 1
    /\ transactions = load_data(file, today)
    /\ failures = 0
    /\ last = Done("load", NotCalled(transactions, file), <<>>, <<>>)

\* FinanceTracker(): the program is started again
Start ==
    /\ Apply("load", NotCalled(load_data(file, today), file), <<>>, <<>>)

AddIncome ==
    /\ Len(transactions) < MaxLen
    /\ \E inp \in IncomeInputs, outcome \in Outcomes(Len(transactions) + 1) :
        LET r == add_income(transactions, file, inp, today, outcome) IN
        /\ Ends(r, outcome)
        /\ Apply("add_income", r, <<>>, <<>>)

AddExpense ==
    /\ Len(transactions) < MaxLen
    /\ \E inp \in ExpenseInputs, outcome \in Outcomes(Len(transactions) + 1) :
        LET r == add_expense(transactions, file, inp, today, outcome) IN
        /\ Ends(r, outcome)
        /\ Apply("add_expense", r, <<>>, <<>>)

DeleteTransactionMenu ==
    \E inp \in MenuInputs(Len(transactions)),
       outcome \in Outcomes(Len(transactions) - 1) :
        LET r == delete_transaction_menu(transactions, file, inp, outcome) IN
        /\ Ends(r, outcome)
        /\ Apply("delete_transaction_menu", r,
                 IF transactions = <<>> THEN <<>> ELSE inp, <<>>)

ShowAllTransactions ==
    /\ transactions # <<>>
    /\ Apply("show_all_transactions", NotCalled(transactions, file), <<>>,
             show_all_transactions(transactions))

\* midnight passes
NextDay ==
    /\ today < MaxDay
    /\ today' = today + 1
    /\ last' = Done("next_day", NotCalled(transactions, file), <<>>, <<>>)
    /\ UNCHANGED <<transactions, file, failures>>

Next ==
    \/ Start
    \/ AddIncome
    \/ AddExpense
    \/ DeleteTransactionMenu
    \/ ShowAllTransactions
    \/ NextDay

Spec == Init /\ [][Next]_vars

\* ------------------------------------------------------ claim vocabulary
RECURSIVE index_sum(_, _)
\* the sum of the amounts at the positions S of txs
index_sum(txs, S) ==
    IF S = {} THEN 0
    ELSE LET i == CHOOSE i \in S : TRUE
         IN  txs[i].amount + index_sum(txs, S \ {i})

Positions(txs) == 1..Len(txs)
Mutating(l) == l.call \in {"add_transaction", "delete_transaction"}
OutOfRange(index, txs) == index < 0 \/ index >= Len(txs)

\* txs with the element at position n (counted from 1) removed
Without(txs, n) ==
    [k \in 1..(Len(txs) - 1) |-> IF k < n THEN txs[k] ELSE txs[k + 1]]

\* a data file load_data gives up on
Corrupt(f) ==
    /\ f.exists
    /\ \/ ~f.closed
       \/ \E i \in 1..Len(f.recs) : ~(Keys \subseteq DOMAIN f.recs[i])

\* ------------------------------------------------------------------ C1
\* C1: after every add_transaction or delete_transaction that returned True,
\* loading the data file in a fresh tracker gives exactly the in-memory
\* sequence, also in runs where a write fails.
C1_PersistenceConsistency ==
    (Mutating(last) /\ last.ret) => load_data(file, today) = transactions

\* ------------------------------------------------------------------ C2
\* C2: when the write of save_data fails inside add_transaction or
\* delete_transaction, the call returns False, and the appended or removed
\* transaction stays appended or removed.
C2_WriteFailureReported ==
    [][(Mutating(last') /\ Failed(last')) =>
          /\ last'.ret = FALSE
          /\ last'.call = "add_transaction" =>
                /\ Len(transactions') = Len(transactions) + 1
                /\ SubSeq(transactions', 1, Len(transactions)) = transactions
          /\ last'.call = "delete_transaction" =>
                transactions' = Without(transactions, last'.index + 1)]_vars

\* ------------------------------------------------------------------ C3
\* C3: in every ledger state and for every index, delete_transaction(index)
\* with index < 0 or index >= len returns False, performs no save and leaves
\* the sequence and the data file as they were; with 0 <= index < len it
\* returns True and the sequence is shorter by exactly one.
C3_DeletionBounds ==
    \A index \in Indexes(Len(transactions)),
       outcome \in Outcomes(Len(transactions) - 1) :
        LET r == delete_transaction(transactions, file, index, outcome) IN
        IF OutOfRange(index, transactions)
        THEN /\ r.ret = FALSE
             /\ r.save = "none"
             /\ r.transactions = transactions
             /\ r.file = file
        ELSE /\ r.ret = TRUE
             /\ Len(r.transactions) = Len(transactions) - 1

\* delete_transaction was called on a non-empty ledger with an index out of
\* range and refused
C3_Witness ==
    /\ last.call = "delete_transaction"
    /\ transactions # <<>>
    /\ OutOfRange(last.index, transactions)
    /\ last.ret = FALSE
    /\ last.save = "none"

\* ------------------------------------------------------------------ C4
\* C4: a tracker constructed over a data file that is unparsable or holds a
\* record missing a required key starts with no transactions; the next
\* add_transaction returns True and leaves the ledger and the data file
\* holding exactly the one new transaction.
C4_CorruptFileRecovery ==
    [][/\ (last'.op = "load" /\ Corrupt(file)) => transactions' = <<>>
       /\ (last.op = "load" /\ Corrupt(file)
              /\ last'.call = "add_transaction") =>
             /\ last'.ret = TRUE
             /\ Len(transactions') = 1
             /\ transactions'[1].amount = last'.amount
             /\ transactions'[1].category = last'.category
             /\ load_data(file', today') = transactions']_vars

\* ------------------------------------------------------------------ C5
\* C5: in every reachable ledger state get_balance() is the signed sum of the
\* amounts of exactly the transactions in the sequence: 0 for the empty
\* ledger, and -1200 once delete(0) has left only the -1200 entry of
\* add(5000), add(-1200).
C5_BalanceAdditivity ==
    /\ get_balance(transactions) = index_sum(transactions, Positions(transactions))
    /\ transactions = <<>> => get_balance(transactions) = 0
    /\ (Len(transactions) = 1 /\ transactions[1].amount = -1200) =>
          get_balance(transactions) = -1200

\* delete(0) has just removed the first entry and the -1200 entry is what is left
C5_Witness ==
    /\ last.call = "delete_transaction"
    /\ last.index = 0
    /\ last.ret = TRUE
    /\ Len(transactions) = 1
    /\ transactions[1].amount = -1200
    /\ get_balance(transactions) = -1200

\* ------------------------------------------------------------------ C6
\* C6: in every reachable ledger state the keys of get_category_totals() are
\* exactly the categories of the current transactions, and each key maps to
\* the sum of the amounts of the current transactions of that category (a
\* category summing to 0 keeps its key).
C6_CategoryAggregation ==
    LET totals == get_category_totals(transactions)
        present == {transactions[i].category : i \in Positions(transactions)}
    IN  /\ DOMAIN totals = present
        /\ \A c \in present :
              totals[c] = index_sum(transactions,
                                    {i \in Positions(transactions) :
                                        transactions[i].category = c})

\* a category holds an income and an expense that cancel, and keeps its key
C6_Witness ==
    /\ Len(transactions) = 2
    /\ transactions[1].category = transactions[2].category
    /\ transactions[1].amount = -transactions[2].amount
    /\ transactions[1].category \in DOMAIN get_category_totals(transactions)
    /\ get_category_totals(transactions)[transactions[1].category] = 0

\* ------------------------------------------------------------------ C7
\* C7: for every transaction t of the ledger and whatever the current day,
\* from_dict(to_dict(t)) has the amount, category, description and date of t:
\* the date is the stored one, not the current day.
C7_RoundTrip ==
    \A i \in Positions(transactions), now \in 1..MaxDay :
        LET t == transactions[i]
            back == from_dict(to_dict(t), now)
        IN  /\ ~from_dict_raises(to_dict(t))
            /\ back.amount = t.amount
            /\ back.category = t.category
            /\ back.description = t.description
            /\ back.date = t.date

\* the ledger holds a transaction dated before the current day
C7_Witness ==
    \E i \in Positions(transactions) :
        /\ transactions[i].date # today
        /\ from_dict(to_dict(transactions[i]), today).date = transactions[i].date

\* ------------------------------------------------------------------ C8
\* C8: every save_data call leaves the data file holding either what it held
\* before the call or the complete current in-memory sequence, whether the
\* write succeeded or failed part-way.
C8_SaveAtomicity ==
    [][last'.save # "none" =>
          \/ file' = file
          \/ file' = json_dump([i \in Positions(transactions') |->
                                   to_dict(transactions'[i])])]_vars

C10_DeleteMenuStorageOrder ==
    [][last'.op = "delete_transaction_menu" =>
          LET lines == delete_menu_lines(transactions)
              choice == int(last'.input)
              n == choice.val
          IN  /\ Len(lines) = Len(transactions)
              /\ \A k \in Positions(transactions) :
                    /\ lines[k].n = k
                    /\ lines[k].transaction = transactions[k]
              /\ (choice.ok /\ 1 <= n /\ n <= Len(transactions)) =>
                    /\ last'.call = "delete_transaction"
                    /\ last'.index = n - 1
                    /\ last'.ret = TRUE
                    /\ Len(transactions') = Len(transactions) - 1
                    /\ \A k \in Positions(transactions) :
                          lines[k].n # n =>
                             transactions'[IF k < n THEN k ELSE k - 1]
                                = lines[k].transaction
              /\ (choice.ok /\ n = 0) => last'.call = "none"
              /\ (~choice.ok \/ n <= 0 \/ n > Len(transactions)) =>
                    /\ transactions' = transactions
                    /\ file' = file]_vars

\* the number typed at the menu was in range, in a ledger whose insertion
\* order was kept, and the transaction shown under it was deleted
C10_Witness ==
    /\ last.op = "delete_transaction_menu"
    /\ last.call = "delete_transaction"
    /\ last.ret = TRUE
    /\ int(last.input).ok
    /\ int(last.input).val = last.index + 1
    /\ last.index = 1
    /\ transactions # <<>>

====
